---- MODULE Spec2Model ----
(***************************************************************************)
(* Conversation orchestration of backend/app/services/conversation_service *)
(* (ConversationService) with the routes of backend/app/api/routes.py that *)
(* touch a conversation directly.                                          *)
(*                                                                         *)
(* The service runs on one asyncio event loop: code between two awaits     *)
(* that really suspend is atomic.  With the default in-memory store        *)
(* (MemoryService._save_to_inmemory never suspends) the suspension points  *)
(* are the generation call inside _agent_speak and the inter-turn sleep of *)
(* _auto_continue_conversation.  Every action below is one such atomic     *)
(* segment of one handler.                                                 *)
(***************************************************************************)
EXTENDS Integers, Sequences, FiniteSets, Bags, TLC

(* ------------------------------ bounds -------------------------------- *)

\* largest positive turn limit a conversation is created or updated with
MaxLimit == 2

\* cap on the length of a message log (bounds unlimited conversations)
MaxLog == MaxLimit + 2

\* largest turn limit and longest roster of the autonomous-run specification
MaxAutoLimit == 3

MaxRoster == 3

\* cap on the number of turns awaiting generation at the same time
MaxInflight == 2

\* cap on the number of streamed generation calls of a behaviour
MaxStreams == 2

\* cap on the number of chunks of one streamed generation call
MaxChunks == 2

\* cap on the number of events published to the WebSocket connections
MaxPublished == 3

\* cap on the number of entries InMemoryStorage holds for one conversation
MaxEntries == 2

\* cap on the length of the message log of a snapshot
MaxMessages == 2

\* cap on the seconds that pass while conversations are created
MaxClock == 1

\* cap on the number of conversations in the registry at once
MaxRegistered == 2

\* cap on the number of autonomous loop tasks alive per conversation
MaxLoops == 2

(* --------------------------- static data ------------------------------ *)

ConvIds == {"conv_0"}

\* agents.json: the participant registry, read-only
Agents == {"a1", "a2", "a3"}

\* agent_ids of a ConversationRequest
Rosters == {<<"a1">>, <<"a1", "a2">>}

\* max_turns of a ConversationRequest / ConversationUpdate (<= 0: unlimited)
Limits == 0..MaxLimit

\* requests of the autonomous-run specification
AutoRosters == UNION {[1..n -> Agents] : n \in 1..MaxRoster}

AutoLimits == 0..MaxAutoLimit

ConversationStatus == {"idle", "active", "stopped", "ended", "error"}

System == "system"

None == "None"

VARIABLES
    conv,       \* the Conversation objects ever created, by id
    registry,   \* ids in ConversationService.active_conversations
    store,      \* ids in MemoryService.conversations
    inflight,   \* bag of turns suspended in the generation call of _agent_speak
    loops,      \* per id: _auto_continue_conversation tasks waiting to run their next iteration
    reply,      \* how the latest create_conversation call ended
    streams,    \* the turns generated with generate_response_stream, in call order
    events,     \* what a callback of message_callbacks has been called with, in order
    connections,\* ConnectionManager.active_connections
    tasks,      \* the broadcast tasks created by message_callback, in creation order
    received,   \* per subscriber: what was delivered to it, in order
    memory,     \* InMemoryStorage.memories
    backend,    \* whether the storage backend of MemoryService answers: "up" or "down"
    answer,     \* what the latest call of InMemoryStorage was asked and returned
    subject,    \* a Conversation handed to _serialize_conversation
    snapshot,   \* the text _serialize_conversation returned for it
    loaded,     \* what _deserialize_conversation made of that text
    clock       \* datetime.now(), in whole seconds since the service came up

\* what only the broadcaster and the memory store write
\* what only the snapshot conversions and the passing of time write
pvars == <<subject, snapshot, loaded, clock>>

bvars == <<connections, tasks, received, memory, backend, answer, pvars>>

\* what only the requests, the streaming turns and the callbacks write
svars == <<reply, streams, events, bvars>>

vars == <<conv, registry, store, inflight, loops, reply, streams, events, connections, tasks, received, memory, backend, answer, subject, snapshot, loaded, clock>>

(* ---------------------------- messages -------------------------------- *)

\* Message(speaker="시스템", content=..., turn_number=n); agent_id defaults to None.
\* "by" is a history annotation: the operation that appended the message.
SystemMessage(text, n, op) ==
    [speaker |-> System, agent_id |-> None, content |-> text, turn_number |-> n, by |-> op]

AgentMessage(agent, n, op) ==
    [speaker |-> agent, agent_id |-> agent, content |-> "response", turn_number |-> n, by |-> op]

IsSystem(m) == m.agent_id = None

RECURSIVE NonSystem(_)
NonSystem(log) ==
    IF log = <<>> THEN <<>>
    ELSE IF IsSystem(Head(log)) THEN NonSystem(Tail(log))
         ELSE <<Head(log)>> \o NonSystem(Tail(log))

(* ------------------------- pure helpers ------------------------------- *)

\* a faulty variant of ShouldEndConversation: the limit is compared with > instead of >=
ShouldEndOffByOne(cv) ==
    IF ~(cv.max_turns <= 0) THEN cv.current_turn > cv.max_turns ELSE FALSE

ShouldEndConversation(cv) ==
    IF ~(cv.max_turns <= 0) THEN cv.current_turn >= cv.max_turns ELSE FALSE

\* a faulty variant of SelectNextAgent: the speaker is picked by the length of the log
SelectNextAgentByLog(cv) ==
    cv.agent_ids[(Len(cv.messages) % Len(cv.agent_ids)) + 1]

SelectNextAgent(cv) ==
    cv.agent_ids[(cv.current_turn % Len(cv.agent_ids)) + 1]

\* a faulty variant of AgentSpeak: the message is numbered by its place in the log
AgentSpeakNumberedByLog(cv, agent, op) ==
    [cv EXCEPT !.messages = Append(@, AgentMessage(agent, Len(cv.messages) + 1, op)),
               !.current_turn = @ + 1]

\* the tail of _agent_speak after the generation call returned
AgentSpeak(cv, agent, op) ==
    [cv EXCEPT !.messages = Append(@, AgentMessage(agent, cv.current_turn + 1, op)),
               !.current_turn = @ + 1]

\* a faulty variant of Stopped: the stop announcement is counted as a turn
StoppedCountsTurn(cv) ==
    [cv EXCEPT !.status = "stopped",
               !.messages = Append(@, SystemMessage("stopped", cv.current_turn + 1, "stop")),
               !.current_turn = @ + 1]

\* the mutation of the object in stop_conversation
Stopped(cv) ==
    [cv EXCEPT !.status = "stopped",
               !.messages = Append(@, SystemMessage("stopped", cv.current_turn + 1, "stop"))]

\* the mutation of the object in end_conversation
Ended(cv) ==
    [cv EXCEPT !.status = "ended",
               !.messages = Append(@, SystemMessage("ended", cv.current_turn + 1, "end"))]

Turn(c, op, agent) == [conv |-> c, op |-> op, agent |-> agent]

\* a faulty variant of SelectedAgents: an empty request gets a default participant
SelectedOrDefault(ids) ==
    IF ids = <<>> THEN <<"a1">> ELSE SelectSeq(ids, LAMBDA a : a \in Agents)

\* the filter of create_conversation: the requested ids found in agents.json
SelectedAgents(ids) == SelectSeq(ids, LAMBDA a : a \in Agents)

\* _create_system_prompt reads .name of every agent of the roster; for an id
\* that is not in agents.json it raises (agent_map.get returns the id itself)
KnownRoster(cv) == \A i \in DOMAIN cv.agent_ids : cv.agent_ids[i] \in Agents

\* the log of a conversation is cut off at MaxLog messages, or at what its turn
\* limit needs (start announcement, max_turns turns, end announcement) if more
LogCap(cv) == IF cv.max_turns + 2 > MaxLog THEN cv.max_turns + 2 ELSE MaxLog

Room(c) == Len(conv[c].messages) < LogCap(conv[c])

\* the autonomous loop tasks of c that exist or are about to be created
LoopTasks(c) ==
    LET S == {u \in BagToSet(inflight) : u.conv = c /\ u.op \in {"start", "loop"}}
    IN  loops[c] + BagCardinality([u \in S |-> inflight[u]])

\* store_message and clear_conversation_memory return None
NoAnswer == [conv |-> None, limit |-> 0, result |-> <<>>]

\* the two callbacks of a subscriber list and the WebSocket connections
Callbacks == <<"cb1", "cb2">>

Sockets == {"ws1", "ws2"}

Subscribers == {Callbacks[i] : i \in DOMAIN Callbacks} \cup Sockets

\* the values of JSON, as json.dumps writes and json.loads reads them
JNull == [t |-> "null"]

JString(s) == [t |-> "string", s |-> s]

JNumber(n) == [t |-> "number", n |-> n]

JBool(b) == [t |-> "bool", b |-> b]

JArray(items) == [t |-> "array", items |-> items]

JObject(fields) == [t |-> "object", f |-> fields]

\* a Conversation with every field at its default, and no read made yet
NoConversation ==
    [status |-> "active", current_turn |-> 0, max_turns |-> 10, agent_ids |-> <<>>,
     messages |-> <<>>, ended_at |-> <<>>]

NotLoaded == [done |-> FALSE, ok |-> FALSE, value |-> NoConversation]

(* ------------------------------ Init ---------------------------------- *)

Init ==
    /\ conv = <<>>
    /\ registry = {}
    /\ store = {}
    /\ inflight = EmptyBag
    /\ loops = [c \in ConvIds |-> 0]
    /\ reply = "none"
    /\ streams = <<>>
    /\ events = <<>>
    /\ connections = <<>>
    /\ tasks = <<>>
    /\ received = [s \in Subscribers |-> <<>>]
    /\ memory = <<>>
    /\ backend = "up"
    /\ answer = NoAnswer
    /\ subject = NoConversation
    /\ snapshot = JNull
    /\ loaded = NotLoaded
    /\ clock = 0

(* --------------------------- operations ------------------------------- *)

\* create_conversation: the request is refused (ValueError) only when none of
\* its agent_ids is in agents.json; otherwise the conversation keeps the
\* request's agent_ids as they came, is registered and saved.
CreateConversation(c, roster, limit) ==
    /\ IF SelectedAgents(roster) = <<>>
       THEN /\ reply' = "ValueError"
            /\ UNCHANGED <<conv, registry, store>>
       ELSE /\ c \notin DOMAIN conv
            /\ conv' = conv @@ (c :> [status |-> "idle", messages |-> <<>>, current_turn |-> 0,
                                     max_turns |-> limit, agent_ids |-> roster])
            /\ registry' = registry \cup {c}
            /\ store' = store \cup {c}
            /\ reply' = "created"
    /\ UNCHANGED <<inflight, loops, streams, events, bvars>>

\* a faulty variant of StartCall: the autonomous loop task is created before the first
\* speaker's generation call instead of after it
StartCallLaunchesLoopFirst(c) ==
    IF c \notin registry \/ ~KnownRoster(conv[c])
    THEN UNCHANGED vars
    ELSE /\ Room(c)
         /\ BagCardinality(inflight) < MaxInflight
         /\ LoopTasks(c) < MaxLoops
         /\ conv' = [conv EXCEPT ![c] =
                        [@ EXCEPT !.messages = Append(@, SystemMessage("started", 0, "start")),
                                  !.status = "active"]]
         /\ inflight' = inflight (+) SetToBag({Turn(c, "start", conv[c].agent_ids[1])})
         /\ loops' = [loops EXCEPT ![c] = @ + 1]
         /\ UNCHANGED <<registry, store, svars>>

\* start_conversation, up to the suspension in _agent_speak.  The status of the
\* conversation is not consulted.  The unknown-id branch raises ValueError,
\* and _create_system_prompt raises for a roster with an id that is not in
\* agents.json, before anything is written; the handler's except turns both
\* into False.
StartCall(c) ==
    IF c \notin registry \/ ~KnownRoster(conv[c])
    THEN UNCHANGED vars
    ELSE /\ Room(c)
         /\ BagCardinality(inflight) < MaxInflight
         /\ LoopTasks(c) < MaxLoops
         /\ conv' = [conv EXCEPT ![c] =
                        [@ EXCEPT !.messages = Append(@, SystemMessage("started", 0, "start")),
                                  !.status = "active"]]
         /\ inflight' = inflight (+) SetToBag({Turn(c, "start", conv[c].agent_ids[1])})
         /\ UNCHANGED <<registry, store, loops, svars>>

\* start_conversation after its generation call returned: the message is
\* appended and saved, then the autonomous loop task is created, then True.
StartGenOk(t) ==
    /\ BagIn(t, inflight) /\ t.op = "start"
    /\ Room(t.conv)
    /\ conv' = [conv EXCEPT ![t.conv] = AgentSpeak(@, t.agent, "start")]
    /\ store' = store \cup {t.conv}
    /\ inflight' = inflight (-) SetToBag({t})
    /\ loops' = [loops EXCEPT ![t.conv] = @ + 1]
    /\ UNCHANGED <<registry, svars>>

\* start_conversation when its generation call raised: _agent_speak re-raises,
\* the handler logs and returns False; nothing is undone, no loop is created.
StartGenFail(t) ==
    /\ BagIn(t, inflight) /\ t.op = "start"
    /\ inflight' = inflight (-) SetToBag({t})
    /\ UNCHANGED <<conv, registry, store, loops, svars>>

\* continue_conversation up to the suspension in _agent_speak (also the body of
\* the command-line viewer's own auto-continue task and manual stepping).
ContinueCall(c) ==
    IF c \notin registry
    THEN UNCHANGED vars
    ELSE IF ShouldEndConversation(conv[c])
    THEN /\ Room(c)
         /\ conv' = [conv EXCEPT ![c] = Ended(@)]
         /\ store' = store \cup {c}
         /\ registry' = registry \ {c}
         /\ UNCHANGED <<inflight, loops, svars>>
    ELSE IF ~KnownRoster(conv[c])
    THEN UNCHANGED vars
    ELSE /\ BagCardinality(inflight) < MaxInflight
         /\ inflight' = inflight (+) SetToBag({Turn(c, "continue", SelectNextAgent(conv[c]))})
         /\ UNCHANGED <<conv, registry, store, loops, svars>>

ContinueGenOk(t) ==
    /\ BagIn(t, inflight) /\ t.op = "continue"
    /\ Room(t.conv)
    /\ conv' = [conv EXCEPT ![t.conv] = AgentSpeak(@, t.agent, "continue")]
    /\ store' = store \cup {t.conv}
    /\ inflight' = inflight (-) SetToBag({t})
    /\ UNCHANGED <<registry, loops, svars>>

ContinueGenFail(t) ==
    /\ BagIn(t, inflight) /\ t.op = "continue"
    /\ inflight' = inflight (-) SetToBag({t})
    /\ UNCHANGED <<conv, registry, store, loops, svars>>

\* one pass of the while-loop of _auto_continue_conversation from its top to
\* the next suspension (or to the task's end)
LoopIterate(c) ==
    /\ loops[c] > 0
    /\ IF c \notin registry \/ conv[c].status \in {"stopped", "ended"}
       THEN /\ loops' = [loops EXCEPT ![c] = @ - 1]
            /\ UNCHANGED <<conv, registry, store, inflight, svars>>
       ELSE IF ShouldEndConversation(conv[c])
       THEN /\ Room(c)
            /\ conv' = [conv EXCEPT ![c] = Ended(@)]
            /\ store' = store \cup {c}
            /\ registry' = registry \ {c}
            /\ loops' = [loops EXCEPT ![c] = @ - 1]
            /\ UNCHANGED <<inflight, svars>>
       ELSE /\ inflight' = inflight (+) SetToBag({Turn(c, "loop", SelectNextAgent(conv[c]))})
            /\ loops' = [loops EXCEPT ![c] = @ - 1]
            /\ UNCHANGED <<conv, registry, store, svars>>

\* the loop's turn completes; the task then sleeps conversation_turn_interval
\* and is ready for its next iteration
LoopGenOk(t) ==
    /\ BagIn(t, inflight) /\ t.op = "loop"
    /\ Room(t.conv)
    /\ conv' = [conv EXCEPT ![t.conv] = AgentSpeak(@, t.agent, "loop")]
    /\ store' = store \cup {t.conv}
    /\ inflight' = inflight (-) SetToBag({t})
    /\ loops' = [loops EXCEPT ![t.conv] = @ + 1]
    /\ UNCHANGED <<registry, svars>>

\* the loop's generation call raised: the except branch of
\* _auto_continue_conversation calls end_conversation and the task ends
LoopGenFail(t) ==
    /\ BagIn(t, inflight) /\ t.op = "loop"
    /\ inflight' = inflight (-) SetToBag({t})
    /\ IF t.conv \in registry
       THEN /\ Room(t.conv)
            /\ conv' = [conv EXCEPT ![t.conv] = Ended(@)]
            /\ store' = store \cup {t.conv}
            /\ registry' = registry \ {t.conv}
       ELSE UNCHANGED <<conv, registry, store>>
    /\ UNCHANGED <<loops, svars>>

\* a faulty variant of StopConversation: the conversation also leaves the registry
StopConversationUnregisters(c) ==
    IF c \notin registry
    THEN UNCHANGED vars
    ELSE /\ Room(c)
         /\ conv' = [conv EXCEPT ![c] = Stopped(@)]
         /\ store' = store \cup {c}
         /\ registry' = registry \ {c}
         /\ UNCHANGED <<inflight, loops, svars>>

StopConversation(c) ==
    IF c \notin registry
    THEN UNCHANGED vars
    ELSE /\ Room(c)
         /\ conv' = [conv EXCEPT ![c] = Stopped(@)]
         /\ store' = store \cup {c}
         /\ UNCHANGED <<registry, inflight, loops, svars>>

EndConversation(c) ==
    IF c \notin registry
    THEN UNCHANGED vars
    ELSE /\ Room(c)
         /\ conv' = [conv EXCEPT ![c] = Ended(@)]
         /\ store' = store \cup {c}
         /\ registry' = registry \ {c}
         /\ UNCHANGED <<inflight, loops, svars>>

DeleteConversation(c) ==
    IF c \notin registry
    THEN UNCHANGED vars
    ELSE /\ store' = store \ {c}
         /\ registry' = registry \ {c}
         /\ UNCHANGED <<conv, inflight, loops, svars>>

\* PUT /conversations/{id}: status and max_turns are written when given
\* (status: a string or None; max_turns: <<>> for None, <<m>> for m)
UpdateConversation(c, status, max_turns) ==
    IF c \notin registry
    THEN UNCHANGED vars
    ELSE /\ conv' = [conv EXCEPT ![c] =
                        [@ EXCEPT !.status = IF status # None THEN status ELSE @,
                                  !.max_turns = IF max_turns # <<>> THEN max_turns[1] ELSE @]]
         /\ UNCHANGED <<registry, store, inflight, loops, svars>>

Turns == BagToSet(inflight)

Next ==
    \/ \E c \in ConvIds, r \in Rosters, l \in Limits : CreateConversation(c, r, l)
    \/ \E c \in ConvIds : StartCall(c)
    \/ \E t \in Turns : StartGenOk(t)
    \/ \E t \in Turns : StartGenFail(t)
    \/ \E c \in ConvIds : ContinueCall(c)
    \/ \E t \in Turns : ContinueGenOk(t)
    \/ \E t \in Turns : ContinueGenFail(t)
    \/ \E c \in ConvIds : LoopIterate(c)
    \/ \E t \in Turns : LoopGenOk(t)
    \/ \E t \in Turns : LoopGenFail(t)
    \/ \E c \in ConvIds : StopConversation(c)
    \/ \E c \in ConvIds : EndConversation(c)
    \/ \E c \in ConvIds : DeleteConversation(c)
    \/ \E c \in ConvIds, s \in ConversationStatus \cup {None}, m \in {<<>>} \cup {<<l>> : l \in Limits} :
           UpdateConversation(c, s, m)

Spec == Init /\ [][Next]_vars

(* ---- the service alone: every operation but the PUT route ------------- *)

NextService ==
    \/ \E c \in ConvIds, r \in Rosters, l \in Limits : CreateConversation(c, r, l)
    \/ \E c \in ConvIds : StartCall(c)
    \/ \E t \in Turns : StartGenOk(t)
    \/ \E t \in Turns : StartGenFail(t)
    \/ \E c \in ConvIds : ContinueCall(c)
    \/ \E t \in Turns : ContinueGenOk(t)
    \/ \E t \in Turns : ContinueGenFail(t)
    \/ \E c \in ConvIds : LoopIterate(c)
    \/ \E t \in Turns : LoopGenOk(t)
    \/ \E t \in Turns : LoopGenFail(t)
    \/ \E c \in ConvIds : StopConversation(c)
    \/ \E c \in ConvIds : EndConversation(c)
    \/ \E c \in ConvIds : DeleteConversation(c)

ServiceSpec == Init /\ [][NextService]_vars

(* ---- a conversation started once and left to its autonomous loop, ----- *)
(* ---- every generation call succeeding                             ----- *)

\* start_conversation on a conversation that was never started
StartOnce(c) ==
    /\ c \in registry
    /\ conv[c].status = "idle"
    /\ conv[c].messages = <<>>
    /\ StartCall(c)

NextAuto ==
    \/ \E c \in ConvIds, r \in AutoRosters, l \in AutoLimits : CreateConversation(c, r, l)
    \/ \E c \in ConvIds : StartOnce(c)
    \/ \E t \in Turns : StartGenOk(t)
    \/ \E c \in ConvIds : LoopIterate(c)
    \/ \E t \in Turns : LoopGenOk(t)

\* the event loop runs every task that is ready, the sleep ends, and (the
\* scenario's assumption) every generation call returns
SpecAuto ==
    /\ Init /\ [][NextAuto]_vars
    /\ WF_vars(\E t \in Turns : StartGenOk(t))
    /\ WF_vars(\E c \in ConvIds : LoopIterate(c))
    /\ WF_vars(\E t \in Turns : LoopGenOk(t))

(* ---- end_conversation when memory_type is "postgresql": -------------- *)
(* ---- save_conversation awaits the database and so suspends ----------- *)

\* end_conversation from the status write to the await of save_conversation
EndBegin(c) ==
    /\ Room(c)
    /\ BagCardinality(inflight) < MaxInflight
    /\ conv' = [conv EXCEPT ![c] = Ended(@)]
    /\ inflight' = inflight (+) SetToBag({Turn(c, "end", None)})
    /\ UNCHANGED <<registry, store, svars>>

\* an explicit end_conversation call, up to its suspension
EndCallSuspending(c) ==
    IF c \notin registry
    THEN UNCHANGED vars
    ELSE EndBegin(c) /\ UNCHANGED loops

\* end_conversation after save_conversation returned: the entry is deleted
\* from active_conversations; if another end_conversation deleted it in the
\* meantime, del raises KeyError and the call returns False
EndSaved(t) ==
    /\ BagIn(t, inflight) /\ t.op = "end"
    /\ inflight' = inflight (-) SetToBag({t})
    /\ store' = store \cup {t.conv}
    /\ registry' = registry \ {t.conv}
    /\ UNCHANGED <<conv, loops, svars>>

\* continue_conversation, its end_conversation suspending in the save
ContinueCallSuspending(c) ==
    IF c \in registry /\ ShouldEndConversation(conv[c])
    THEN EndBegin(c) /\ UNCHANGED loops
    ELSE ContinueCall(c)

\* an iteration of the autonomous loop, its end_conversation suspending in the save
LoopIterateSuspending(c) ==
    IF /\ c \in registry
       /\ conv[c].status \notin {"stopped", "ended"}
       /\ ShouldEndConversation(conv[c])
    THEN /\ loops[c] > 0
         /\ EndBegin(c)
         /\ loops' = [loops EXCEPT ![c] = @ - 1]
    ELSE LoopIterate(c)

NextPersist ==
    \/ \E c \in ConvIds, r \in Rosters, l \in Limits : CreateConversation(c, r, l)
    \/ \E c \in ConvIds : StartCall(c)
    \/ \E t \in Turns : StartGenOk(t)
    \/ \E c \in ConvIds : ContinueCallSuspending(c)
    \/ \E t \in Turns : ContinueGenOk(t)
    \/ \E c \in ConvIds : LoopIterateSuspending(c)
    \/ \E t \in Turns : LoopGenOk(t)
    \/ \E c \in ConvIds : EndCallSuspending(c)
    \/ \E t \in Turns : EndSaved(t)

PersistSpec == Init /\ [][NextPersist]_vars

(* ---- the service as its callers see it: requests that may name an ---- *)
(* ---- unknown conversation or unknown participants                  ---- *)

\* an id that create_conversation never handed out
NoSuchId == "conv_9"

RequestIds == ConvIds \cup {NoSuchId}

\* agent_ids of requests, valid or not ("zz" is not in agents.json)
RequestRosters == {<<>>, <<"zz">>, <<"a1">>, <<"a1", "a2">>, <<"a1", "zz">>}

\* the lookup in active_conversations found nothing: the operation reports
\* failure (False) to its caller and touches nothing
Refused ==
    /\ reply' = "False"
    /\ UNCHANGED <<conv, registry, store, inflight, loops, streams, events, bvars>>

StartRequest(c) == IF c \notin registry THEN Refused ELSE StartCall(c)

ContinueRequest(c) == IF c \notin registry THEN Refused ELSE ContinueCall(c)

StopRequest(c) == IF c \notin registry THEN Refused ELSE StopConversation(c)

\* a faulty variant of EndRequest: the object of an ended conversation is ended again
EndRequestOnStaleObject(c) ==
    IF c \notin DOMAIN conv
    THEN Refused
    ELSE /\ Room(c)
         /\ conv' = [conv EXCEPT ![c] = Ended(@)]
         /\ store' = store \cup {c}
         /\ registry' = registry \ {c}
         /\ UNCHANGED <<inflight, loops, svars>>

EndRequest(c) == IF c \notin registry THEN Refused ELSE EndConversation(c)

NextRequest ==
    \/ \E c \in ConvIds, r \in RequestRosters, l \in Limits : CreateConversation(c, r, l)
    \/ \E c \in RequestIds : StartRequest(c)
    \/ \E t \in Turns : StartGenOk(t)
    \/ \E c \in RequestIds : ContinueRequest(c)
    \/ \E t \in Turns : ContinueGenOk(t)
    \/ \E c \in ConvIds : LoopIterate(c)
    \/ \E t \in Turns : LoopGenOk(t)
    \/ \E c \in RequestIds : StopRequest(c)
    \/ \E c \in RequestIds : EndRequest(c)

RequestSpec == Init /\ [][NextRequest]_vars

(* ---- turns of continue_conversation with settings.enable_streaming ---- *)

\* delta.content of a chunk of the stream: any string, the empty one included
\* (chunks whose delta.content is None are skipped by the loop)
Chunks == {"", "x"}

StreamMessage(agent, text, n) ==
    [speaker |-> agent, agent_id |-> agent, content |-> text, turn_number |-> n,
     is_streaming |-> TRUE]

\* what a registered callback is called with: the conversation, the message,
\* and (for the properties) the generation call it stems from
Event(c, i, m, streaming) ==
    [conv |-> c, stream |-> i, is_streaming |-> streaming, content |-> m.content,
     turn_number |-> m.turn_number]

\* continue_conversation up to the suspension in generate_response_stream
StreamContinueCall(c) ==
    IF c \in registry /\ ~ShouldEndConversation(conv[c]) /\ KnownRoster(conv[c])
    THEN /\ Len(streams) < MaxStreams
         /\ streams' = Append(streams, [conv |-> c, agent |-> SelectNextAgent(conv[c]),
                                        full_content |-> "", chunks |-> 0, phase |-> "open"])
         /\ UNCHANGED <<conv, registry, store, inflight, loops, reply, events, bvars>>
    ELSE ContinueCall(c)

\* one pass of the async-for of generate_response_stream: full_content grows
\* by the chunk and stream_callback hands the cumulative content to the callbacks
StreamChunk(i, chunk) ==
    /\ streams[i].phase = "open"
    /\ streams[i].chunks < MaxChunks
    /\ LET full == streams[i].full_content \o chunk
           c == streams[i].conv
       IN  /\ streams' = [streams EXCEPT ![i].full_content = full, ![i].chunks = @ + 1]
           /\ events' = Append(events,
                  Event(c, i, StreamMessage(streams[i].agent, full, conv[c].current_turn + 1), TRUE))
    /\ UNCHANGED <<conv, registry, store, inflight, loops, reply, bvars>>

\* the message _agent_speak builds from the returned full_content
Spoken(cv, agent, text) ==
    [AgentMessage(agent, cv.current_turn + 1, "continue") EXCEPT !.content = text]

\* the stream is exhausted: _agent_speak appends the message, increments
\* current_turn, saves and calls the callbacks with the final message
StreamDone(i) ==
    /\ streams[i].phase = "open"
    /\ LET c == streams[i].conv
           m == Spoken(conv[c], streams[i].agent, streams[i].full_content)
       IN  /\ Room(c)
           /\ conv' = [conv EXCEPT ![c] = [@ EXCEPT !.messages = Append(@, m),
                                                    !.current_turn = @ + 1]]
           /\ store' = store \cup {c}
           /\ events' = Append(events, Event(c, i, m, FALSE))
    /\ streams' = [streams EXCEPT ![i].phase = "done"]
    /\ UNCHANGED <<registry, inflight, loops, reply, bvars>>

\* a faulty variant of StreamFail: what was received so far is kept as the turn's message
StreamFailKeepsPartial(i) ==
    /\ streams[i].phase = "open"
    /\ LET c == streams[i].conv
           m == Spoken(conv[c], streams[i].agent, streams[i].full_content)
       IN  /\ Room(c)
           /\ conv' = [conv EXCEPT ![c] = [@ EXCEPT !.messages = Append(@, m),
                                                    !.current_turn = @ + 1]]
    /\ streams' = [streams EXCEPT ![i].phase = "failed"]
    /\ UNCHANGED <<registry, store, inflight, loops, reply, events, bvars>>

\* the stream (or the request that opens it) raises: generate_response_stream
\* and _agent_speak re-raise, continue_conversation returns False
StreamFail(i) ==
    /\ streams[i].phase = "open"
    /\ streams' = [streams EXCEPT ![i].phase = "failed"]
    /\ UNCHANGED <<conv, registry, store, inflight, loops, reply, events, bvars>>

NextStream ==
    \/ \E c \in ConvIds, r \in Rosters, l \in Limits : CreateConversation(c, r, l)
    \/ \E c \in ConvIds : StreamContinueCall(c)
    \/ \E i \in DOMAIN streams, chunk \in Chunks : StreamChunk(i, chunk)
    \/ \E i \in DOMAIN streams : StreamDone(i)
    \/ \E i \in DOMAIN streams : StreamFail(i)
    \/ \E c \in ConvIds : EndConversation(c)

StreamSpec == Init /\ [][NextStream]_vars

(* ---- turns of continue_conversation with callbacks registered -------- *)
(* ---- (streaming off), any of which may raise when called       -------- *)

CallbackSet == {Callbacks[i] : i \in DOMAIN Callbacks}

\* a call of callback cb with event e, which returned (ok) or raised
Call(e, returned) ==
    [conv |-> e.conv, content |-> e.content, turn_number |-> e.turn_number,
     is_streaming |-> e.is_streaming, ok |-> returned]

\* a faulty variant of ExecuteCallbacks: the first exception ends the loop
ExecuteCallbacksAborting(rcv, e, raising) ==
    [s \in DOMAIN rcv |->
        IF \E i \in DOMAIN Callbacks :
               /\ Callbacks[i] = s
               /\ \A j \in 1..(i - 1) : Callbacks[j] \notin raising
        THEN Append(rcv[s], Call(e, s \notin raising))
        ELSE rcv[s]]

\* _execute_callbacks: every callback of the list is called with the event,
\* each inside its own try/except; the callbacks in raising raise
ExecuteCallbacks(rcv, e, raising) ==
    [s \in DOMAIN rcv |->
        IF s \in CallbackSet
        THEN Append(rcv[s], Call(e, s \notin raising))
        ELSE rcv[s]]

\* continue_conversation after its generation call returned: the message is
\* appended and saved, then handed to the callbacks
ContinueGenPublished(t, raising) ==
    /\ BagIn(t, inflight) /\ t.op = "continue"
    /\ Room(t.conv)
    /\ conv' = [conv EXCEPT ![t.conv] = AgentSpeak(@, t.agent, "continue")]
    /\ store' = store \cup {t.conv}
    /\ inflight' = inflight (-) SetToBag({t})
    /\ LET e == Event(t.conv, 0, AgentMessage(t.agent, conv[t.conv].current_turn + 1, "continue"), FALSE)
       IN  /\ events' = Append(events, e)
           /\ received' = ExecuteCallbacks(received, e, raising)
    /\ UNCHANGED <<registry, loops, reply, streams, connections, tasks, memory, backend, answer, pvars>>

NextCallback ==
    \/ \E c \in ConvIds, r \in Rosters, l \in Limits : CreateConversation(c, r, l)
    \/ \E c \in ConvIds : ContinueCall(c)
    \/ \E t \in Turns, raising \in SUBSET CallbackSet : ContinueGenPublished(t, raising)
    \/ \E t \in Turns : ContinueGenFail(t)
    \/ \E c \in ConvIds : StopConversation(c)
    \/ \E c \in ConvIds : EndConversation(c)

CallbackSpec == Init /\ [][NextCallback]_vars

(* ---- the WebSocket fan-out of routes.py: message_callback and -------- *)
(* ---- ConnectionManager; every send_text is a suspension point  -------- *)

\* list.remove: the first occurrence of x is taken out
RECURSIVE Remove(_, _)
Remove(list, x) ==
    IF list = <<>> THEN <<>>
    ELSE IF Head(list) = x THEN Tail(list)
         ELSE <<Head(list)>> \o Remove(Tail(list), x)

InList(list, x) == \E k \in DOMAIN list : list[k] = x

\* a broadcast coroutine that has not run yet: i counts the connections its
\* for-loop has fetched, cur is the connection whose send_text it awaits,
\* since orders the send_text calls in time
NewBroadcast(n) == [msg |-> n, i |-> 0, cur |-> None, state |-> "created", since |-> 0]

\* the time of the next send_text call
Tick(ts) ==
    LET S == {ts[j].since : j \in DOMAIN ts}
    IN  1 + (IF S = {} THEN 0 ELSE CHOOSE m \in S : \A x \in S : x <= m)

\* a connection sends its frames in the order of the send_text calls: the
\* pending send of task k is the oldest one on its connection
Oldest(k) ==
    \A j \in DOMAIN tasks :
        tasks[j].state = "sending" /\ tasks[j].cur = tasks[k].cur =>
            tasks[j].since >= tasks[k].since

\* the for-loop of broadcast fetches the next connection of the list as it
\* is now and runs up to the await of send_text, or ends
Advance(task, list, tick) ==
    IF task.i < Len(list)
    THEN [task EXCEPT !.cur = list[task.i + 1], !.i = @ + 1, !.state = "sending",
                      !.since = tick]
    ELSE [task EXCEPT !.cur = None, !.state = "done"]

\* websocket_endpoint: manager.connect
Connect(ws) ==
    /\ ~InList(connections, ws)
    /\ connections' = Append(connections, ws)
    /\ UNCHANGED <<conv, registry, store, inflight, loops, reply, streams, events,
                   tasks, received, memory, backend, answer, pvars>>

\* websocket_endpoint on WebSocketDisconnect: manager.disconnect
Disconnect(ws) ==
    /\ InList(connections, ws)
    /\ connections' = Remove(connections, ws)
    /\ UNCHANGED <<conv, registry, store, inflight, loops, reply, streams, events,
                   tasks, received, memory, backend, answer, pvars>>

\* message_callback: the event is handed to a new task, which runs later
Publish ==
    /\ Len(tasks) < MaxPublished
    /\ tasks' = Append(tasks, NewBroadcast(Len(tasks) + 1))
    /\ UNCHANGED <<conv, registry, store, inflight, loops, reply, streams, events,
                   connections, received, memory, backend, answer, pvars>>

\* the /start route: the conversation_updated event is broadcast by the
\* handler itself, which runs into the first send_text at once
PublishDirect ==
    /\ Len(tasks) < MaxPublished
    /\ tasks' = Append(tasks, Advance(NewBroadcast(Len(tasks) + 1), connections, Tick(tasks)))
    /\ UNCHANGED <<conv, registry, store, inflight, loops, reply, streams, events,
                   connections, received, memory, backend, answer, pvars>>

\* the event loop runs a created task for the first time; tasks are
\* started in the order of their creation
TaskStart(k) ==
    /\ tasks[k].state = "created"
    /\ \A j \in 1..(k - 1) : tasks[j].state # "created"
    /\ tasks' = [tasks EXCEPT ![k] = Advance(@, connections, Tick(tasks))]
    /\ UNCHANGED <<conv, registry, store, inflight, loops, reply, streams, events,
                   connections, received, memory, backend, answer, pvars>>

\* send_text returned: the connection has the message, the loop goes on
SendOk(k) ==
    /\ tasks[k].state = "sending"
    /\ Oldest(k)
    /\ received' = [received EXCEPT ![tasks[k].cur] = Append(@, tasks[k].msg)]
    /\ tasks' = [tasks EXCEPT ![k] = Advance(@, connections, Tick(tasks))]
    /\ UNCHANGED <<conv, registry, store, inflight, loops, reply, streams, events,
                   connections, memory, backend, answer, pvars>>

\* send_text raised: the connection is removed from the list the loop is
\* iterating over; if another task removed it already, remove raises
\* ValueError inside the except clause and the broadcast ends there
SendFail(k) ==
    /\ tasks[k].state = "sending"
    /\ Oldest(k)
    /\ IF InList(connections, tasks[k].cur)
       THEN /\ connections' = Remove(connections, tasks[k].cur)
            /\ tasks' = [tasks EXCEPT ![k] = Advance(@, connections', Tick(tasks))]
       ELSE /\ tasks' = [tasks EXCEPT ![k] = [@ EXCEPT !.cur = None, !.state = "crashed"]]
            /\ UNCHANGED connections
    /\ UNCHANGED <<conv, registry, store, inflight, loops, reply, streams, events,
                   received, memory, backend, answer, pvars>>

NextBroadcast ==
    \/ \E ws \in Sockets : Connect(ws)
    \/ \E ws \in Sockets : Disconnect(ws)
    \/ Publish
    \/ PublishDirect
    \/ \E k \in DOMAIN tasks : TaskStart(k)
    \/ \E k \in DOMAIN tasks : SendOk(k)
    \/ \E k \in DOMAIN tasks : SendFail(k)

BroadcastSpec == Init /\ [][NextBroadcast]_vars

(* ---- the service on a storage backend that may fail (memory_type ----- *)
(* ---- "redis"): the client's calls do not suspend, _save_to_redis ----- *)
(* ---- and _load_from_redis turn an exception into False and None  ----- *)

BackendFails ==
    /\ backend = "up"
    /\ backend' = "down"
    /\ UNCHANGED <<conv, registry, store, inflight, loops, reply, streams, events,
                   connections, tasks, received, memory, answer, pvars>>

BackendRecovers ==
    /\ backend = "down"
    /\ backend' = "up"
    /\ UNCHANGED <<conv, registry, store, inflight, loops, reply, streams, events,
                   connections, tasks, received, memory, answer, pvars>>

\* create_conversation: the result of save_conversation is not looked at
CreateStored(c, roster, limit) ==
    IF backend = "up" \/ SelectedAgents(roster) = <<>>
    THEN CreateConversation(c, roster, limit)
    ELSE /\ c \notin DOMAIN conv
         /\ conv' = conv @@ (c :> [status |-> "idle", messages |-> <<>>, current_turn |-> 0,
                                  max_turns |-> limit, agent_ids |-> roster])
         /\ registry' = registry \cup {c}
         /\ reply' = "created"
         /\ UNCHANGED <<store, inflight, loops, streams, events, bvars>>

\* continue_conversation after its generation call returned: the message is
\* appended, save_conversation is awaited and its result dropped, the
\* callbacks are called, True is returned
ContinueGenSaved(t) ==
    /\ BagIn(t, inflight) /\ t.op = "continue"
    /\ Room(t.conv)
    /\ conv' = [conv EXCEPT ![t.conv] = AgentSpeak(@, t.agent, "continue")]
    /\ store' = IF backend = "up" THEN store \cup {t.conv} ELSE store
    /\ inflight' = inflight (-) SetToBag({t})
    /\ LET e == Event(t.conv, 0, AgentMessage(t.agent, conv[t.conv].current_turn + 1, "continue"), FALSE)
       IN  /\ events' = Append(events, e)
           /\ received' = ExecuteCallbacks(received, e, {})
    /\ UNCHANGED <<registry, loops, reply, streams, connections, tasks, memory, backend, answer, pvars>>

\* MemoryService.load_conversation: None when the key is absent, and None
\* when the backend raised
LoadConversation(c) ==
    /\ reply' = IF backend = "up" /\ c \in store THEN "conversation" ELSE "None"
    /\ UNCHANGED <<conv, registry, store, inflight, loops, streams, events, bvars>>

\* MemoryService.list_conversations: the stored conversations, and the
\* empty list when the backend raised
ListConversations ==
    /\ reply' = IF backend = "up" /\ store # {} THEN "[conversation]" ELSE "[]"
    /\ UNCHANGED <<conv, registry, store, inflight, loops, streams, events, bvars>>

NextStorage ==
    \/ BackendFails
    \/ BackendRecovers
    \/ \E c \in ConvIds, r \in Rosters : CreateStored(c, r, 0)
    \/ \E c \in ConvIds : ContinueCall(c)
    \/ \E t \in Turns : ContinueGenSaved(t)
    \/ \E t \in Turns : ContinueGenFail(t)
    \/ \E c \in RequestIds : LoadConversation(c)
    \/ ListConversations

StorageSpec == Init /\ [][NextStorage]_vars

(* ---- InMemoryStorage of models/memory.py; every method runs under ---- *)
(* ---- the storage's lock and awaits nothing else                  ---- *)

\* conversation ids, agent ids and message contents of the stored entries
MemIds == {"A", "B"}

MemAgents == {"a1", "a2"}

Words == {"x", "y"}

MemoryEntry(c, a, w) == [conversation_id |-> c, agent_id |-> a, content |-> w]

\* the Python slice list[-limit:] for limit >= 0 (-0 is 0: the whole list)
LastSlice(list, limit) ==
    IF limit = 0 \/ limit >= Len(list)
    THEN list
    ELSE SubSeq(list, Len(list) - limit + 1, Len(list))

GetConversationHistory(mem, c, limit) ==
    IF c \notin DOMAIN mem THEN <<>> ELSE LastSlice(mem[c], limit)

GetAgentMemory(mem, a, c, limit) ==
    IF c \notin DOMAIN mem THEN <<>>
    ELSE LastSlice(SelectSeq(mem[c], LAMBDA e : e.agent_id = a), limit)

\* topic is the set of keywords of current_topic; an entry is relevant when
\* its content holds one of them
GetRelevantContext(mem, c, topic, limit) ==
    IF c \notin DOMAIN mem THEN <<>>
    ELSE LastSlice(SelectSeq(mem[c], LAMBDA e : e.content \in topic), limit)

StoreMessage(c, a, w) ==
    /\ c \in DOMAIN memory => Len(memory[c]) < MaxEntries
    /\ memory' = IF c \in DOMAIN memory
                 THEN [memory EXCEPT ![c] = Append(@, MemoryEntry(c, a, w))]
                 ELSE memory @@ (c :> <<MemoryEntry(c, a, w)>>)
    /\ answer' = NoAnswer
    /\ UNCHANGED <<conv, registry, store, inflight, loops, reply, streams, events,
                   connections, tasks, received, backend, pvars>>

\* a faulty variant of ClearConversationMemory: the whole dictionary is emptied
ClearEveryMemory(c) ==
    /\ c \in DOMAIN memory
    /\ memory' = <<>>
    /\ answer' = NoAnswer
    /\ UNCHANGED <<conv, registry, store, inflight, loops, reply, streams, events,
                   connections, tasks, received, backend, pvars>>

ClearConversationMemory(c) ==
    /\ memory' = [k \in DOMAIN memory \ {c} |-> memory[k]]
    /\ answer' = NoAnswer
    /\ UNCHANGED <<conv, registry, store, inflight, loops, reply, streams, events,
                   connections, tasks, received, backend, pvars>>

\* a get_conversation_history call: what it was asked and what it returned
QueryHistory(c, limit) ==
    /\ answer' = [conv |-> c, limit |-> limit, result |-> GetConversationHistory(memory, c, limit)]
    /\ UNCHANGED <<conv, registry, store, inflight, loops, reply, streams, events,
                   connections, tasks, received, memory, backend, pvars>>

QueryLimits == 0..(MaxEntries + 1)

NextMemory ==
    \/ \E c \in MemIds, a \in MemAgents, w \in Words : StoreMessage(c, a, w)
    \/ \E c \in MemIds : ClearConversationMemory(c)
    \/ \E c \in MemIds, l \in QueryLimits : QueryHistory(c, l)

MemorySpec == Init /\ [][NextMemory]_vars

(* ---- delete_conversation as its caller sees it (in-memory backend) ---- *)

\* a faulty variant of DeleteRequest: the entry of the memory store is left behind
DeleteRequestKeepsStored(c) ==
    IF c \notin registry
    THEN Refused
    ELSE /\ reply' = "True"
         /\ registry' = registry \ {c}
         /\ UNCHANGED <<conv, store, inflight, loops, streams, events, bvars>>

\* delete_conversation: False when active_conversations has no such id;
\* otherwise the entry of the memory store and the entry of the registry
\* are deleted and True is returned. The in-memory delete has no suspension
\* point, so the call is one step. The Conversation object lives on for the
\* turns that still hold it.
DeleteRequest(c) ==
    IF c \notin registry
    THEN Refused
    ELSE /\ reply' = "True"
         /\ store' = store \ {c}
         /\ registry' = registry \ {c}
         /\ UNCHANGED <<conv, inflight, loops, streams, events, bvars>>

NextDelete ==
    \/ \E c \in ConvIds, r \in RequestRosters, l \in Limits : CreateConversation(c, r, l)
    \/ \E c \in RequestIds : ContinueRequest(c)
    \/ \E t \in Turns : ContinueGenOk(t)
    \/ \E c \in RequestIds : StopRequest(c)
    \/ \E c \in RequestIds : DeleteRequest(c)

DeleteSpec == Init /\ [][NextDelete]_vars

(* ---- the DELETE and GET routes of /conversations/{id} ----------------- *)

\* GET /conversations/{id}: 404 when get_conversation finds no entry in
\* active_conversations, else 200 with the conversation
GetAnswer(c) == IF c \in registry THEN "200" ELSE "404"

GetRoute(c) ==
    /\ reply' = GetAnswer(c)
    /\ UNCHANGED <<conv, registry, store, inflight, loops, streams, events, bvars>>

\* DELETE /conversations/{id}: stop_conversation is awaited (for an unknown
\* id it catches its own ValueError and returns False); then
\* conversation_service.delete_conversation(id) is called without await, so
\* only a coroutine object is made and no line of its body runs; the route
\* answers 200 in every case.
DeleteRoute(c) ==
    /\ reply' = "200"
    /\ IF c \notin registry
       THEN UNCHANGED <<conv, store>>
       ELSE /\ Room(c)
            /\ conv' = [conv EXCEPT ![c] = Stopped(@)]
            /\ store' = store \cup {c}
    /\ UNCHANGED <<registry, inflight, loops, streams, events, bvars>>

NextRoute ==
    \/ \E c \in ConvIds, r \in RequestRosters, l \in Limits : CreateConversation(c, r, l)
    \/ \E c \in RequestIds : ContinueRequest(c)
    \/ \E t \in Turns : ContinueGenOk(t)
    \/ \E c \in RequestIds : DeleteRoute(c)
    \/ \E c \in RequestIds : GetRoute(c)

RouteSpec == Init /\ [][NextRoute]_vars

(* ---- the persisted snapshot: _serialize_conversation and back -------- *)

Digits == <<"0", "1", "2", "3", "4", "5", "6", "7", "8", "9">>

DigitOf(ch) == CHOOSE d \in 0..9 : Digits[d + 1] = ch

IsDigits(chars) == \A i \in DOMAIN chars : \E d \in 0..9 : Digits[d + 1] = chars[i]

\* a faulty variant of Pad: the decimal digits of n without leading zeros
Unpadded(n, width) ==
    LET len == CHOOSE k \in 1..width : n < 10 ^ k /\ (k = 1 \/ n >= 10 ^ (k - 1))
    IN  [i \in 1..len |-> Digits[((n \div (10 ^ (len - i))) % 10) + 1]]

\* n in decimal, padded with zeros to width characters ("%02d", "%06d")
Pad(n, width) == [i \in 1..width |-> Digits[((n \div (10 ^ (width - i))) % 10) + 1]]

\* default=str of json.dumps on a datetime: str(datetime) is
\* "YYYY-MM-DD HH:MM:SS", followed by ".ffffff" only when microsecond is not 0
\* (the fields before the seconds are written like the seconds and left out)
DatetimeText(d) ==
    Pad(d.second, 2) \o (IF d.microsecond = 0 THEN <<>> ELSE <<".">> \o Pad(d.microsecond, 6))

RECURSIVE Number(_)
Number(chars) ==
    IF chars = <<>> THEN 0
    ELSE Number(SubSeq(chars, 1, Len(chars) - 1)) * 10 + DigitOf(chars[Len(chars)])

\* a datetime field of the model validated from a string: two digits of
\* seconds, then optionally "." and one to six digits of a fraction of a
\* second; <<>> when the text is no datetime
ParseDatetime(text) ==
    IF Len(text) = 2 /\ IsDigits(text)
    THEN <<[second |-> Number(text), microsecond |-> 0]>>
    ELSE IF /\ Len(text) \in 4..9
            /\ text[3] = "."
            /\ IsDigits(SubSeq(text, 1, 2))
            /\ IsDigits(SubSeq(text, 4, Len(text)))
         THEN <<[second |-> Number(SubSeq(text, 1, 2)),
                 microsecond |-> Number(SubSeq(text, 4, Len(text))) * (10 ^ (9 - Len(text)))]>>
         ELSE <<>>

\* model_dump of a Message, then json.dumps
DumpMessage(m) ==
    JObject([speaker |-> JString(m.speaker),
             content |-> JString(m.content),
             agent_id |-> IF m.agent_id = None THEN JNull ELSE JString(m.agent_id),
             timestamp |-> JString(DatetimeText(m.timestamp)),
             turn_number |-> JNumber(m.turn_number),
             is_streaming |-> JBool(m.is_streaming)])

\* _serialize_conversation: model_dump, then json.dumps(..., default=str)
SerializeConversation(cv) ==
    JObject([status |-> JString(cv.status),
             current_turn |-> JNumber(cv.current_turn),
             max_turns |-> JNumber(cv.max_turns),
             agent_ids |-> JArray([i \in DOMAIN cv.agent_ids |-> JString(cv.agent_ids[i])]),
             messages |-> JArray([i \in DOMAIN cv.messages |-> DumpMessage(cv.messages[i])]),
             ended_at |-> IF cv.ended_at = <<>> THEN JNull
                          ELSE JString(DatetimeText(cv.ended_at[1]))])

\* the validation of one field: <<v>> when the JSON value is accepted
StrField(j) == IF j.t = "string" THEN <<j.s>> ELSE <<>>

OptionalStrField(j) == IF j.t = "null" THEN <<None>> ELSE StrField(j)

IntField(j) == IF j.t = "number" THEN <<j.n>> ELSE <<>>

BoolField(j) == IF j.t = "bool" THEN <<j.b>> ELSE <<>>

DatetimeField(j) == IF j.t = "string" THEN ParseDatetime(j.s) ELSE <<>>

\* Message(**dict): <<m>>, or <<>> when a field fails its validation
LoadMessage(j) ==
    IF j.t # "object" THEN <<>>
    ELSE LET speaker == StrField(j.f.speaker)
             content == StrField(j.f.content)
             agent_id == OptionalStrField(j.f.agent_id)
             timestamp == DatetimeField(j.f.timestamp)
             turn_number == IntField(j.f.turn_number)
             is_streaming == BoolField(j.f.is_streaming)
         IN  IF <<>> \in {speaker, content, agent_id, timestamp, turn_number, is_streaming}
             THEN <<>>
             ELSE <<[speaker |-> speaker[1], content |-> content[1], agent_id |-> agent_id[1],
                     timestamp |-> timestamp[1], turn_number |-> turn_number[1],
                     is_streaming |-> is_streaming[1]]>>

\* _deserialize_conversation: json.loads, then Conversation(**dict); any
\* validation error is caught and None is returned (ok is FALSE)
DeserializeConversation(j) ==
    IF j.t # "object" THEN [done |-> TRUE, ok |-> FALSE, value |-> NoConversation]
    ELSE LET status == StrField(j.f.status)
             current_turn == IntField(j.f.current_turn)
             max_turns == IntField(j.f.max_turns)
             ids == IF j.f.agent_ids.t = "array"
                    THEN [i \in DOMAIN j.f.agent_ids.items |-> StrField(j.f.agent_ids.items[i])]
                    ELSE << <<>> >>
             msgs == IF j.f.messages.t = "array"
                     THEN [i \in DOMAIN j.f.messages.items |-> LoadMessage(j.f.messages.items[i])]
                     ELSE << <<>> >>
             ended_at == IF j.f.ended_at.t = "null" THEN << <<>> >>
                         ELSE LET d == DatetimeField(j.f.ended_at)
                              IN  IF d = <<>> THEN <<>> ELSE <<d>>
             valid == /\ status # <<>>
                      /\ current_turn # <<>>
                      /\ max_turns # <<>>
                      /\ ended_at # <<>>
                      /\ \A i \in DOMAIN ids : ids[i] # <<>>
                      /\ \A i \in DOMAIN msgs : msgs[i] # <<>>
         IN  IF ~valid THEN [done |-> TRUE, ok |-> FALSE, value |-> NoConversation]
             ELSE [done |-> TRUE, ok |-> TRUE,
                   value |-> [status |-> status[1],
                              current_turn |-> current_turn[1],
                              max_turns |-> max_turns[1],
                              agent_ids |-> [i \in DOMAIN ids |-> ids[i][1]],
                              messages |-> [i \in DOMAIN msgs |-> msgs[i][1]],
                              ended_at |-> ended_at[1]]]

\* the datetimes of the snapshots: datetime.now() with and without microseconds
Datetimes == [second : {7, 30}, microsecond : {0, 5, 120000}]

\* who wrote a message of the log and when: the system or a participant
MessageShapes == [agent_id : {None, "a1"}, timestamp : Datetimes]

\* the Conversation whose log has these messages, numbered as _agent_speak,
\* start, stop and end number them
ConversationOf(status, shapes, ended_at) ==
    [status |-> status,
     current_turn |-> Cardinality({i \in DOMAIN shapes : shapes[i].agent_id # None}),
     max_turns |-> 0,
     agent_ids |-> <<"a1", "a2">>,
     messages |-> [i \in DOMAIN shapes |->
                      [speaker |-> IF shapes[i].agent_id = None THEN System ELSE "Agent 1",
                       content |-> "x",
                       agent_id |-> shapes[i].agent_id,
                       timestamp |-> shapes[i].timestamp,
                       turn_number |-> Cardinality({k \in 1..i : shapes[k].agent_id # None})
                                       + (IF shapes[i].agent_id = None THEN 1 ELSE 0),
                       is_streaming |-> FALSE]],
     ended_at |-> ended_at]

Subjects ==
    {ConversationOf(status, shapes, ended_at) :
        status \in ConversationStatus,
        shapes \in UNION {[1..n -> MessageShapes] : n \in 0..MaxMessages},
        ended_at \in {<<>>} \cup {<<d>> : d \in Datetimes}}

SnapshotInit ==
    /\ conv = <<>>
    /\ registry = {}
    /\ store = {}
    /\ inflight = EmptyBag
    /\ loops = [c \in ConvIds |-> 0]
    /\ reply = "none"
    /\ streams = <<>>
    /\ events = <<>>
    /\ connections = <<>>
    /\ tasks = <<>>
    /\ received = [s \in Subscribers |-> <<>>]
    /\ memory = <<>>
    /\ backend = "up"
    /\ answer = NoAnswer
    /\ subject \in Subjects
    /\ snapshot = JNull
    /\ loaded = NotLoaded
    /\ clock = 0

\* _save_to_redis, _save_to_postgresql: the snapshot of the conversation is written
Serialize ==
    /\ snapshot.t = "null"
    /\ snapshot' = SerializeConversation(subject)
    /\ UNCHANGED <<conv, registry, store, inflight, loops, reply, streams, events,
                   connections, tasks, received, memory, backend, answer, subject, loaded, clock>>

\* _load_from_redis, _load_from_postgresql: the snapshot is read back
Deserialize ==
    /\ snapshot.t # "null"
    /\ ~loaded.done
    /\ loaded' = DeserializeConversation(snapshot)
    /\ UNCHANGED <<conv, registry, store, inflight, loops, reply, streams, events,
                   connections, tasks, received, memory, backend, answer, subject, snapshot, clock>>

NextSnapshot ==
    \/ Serialize
    \/ Deserialize

SnapshotSpec == SnapshotInit /\ [][NextSnapshot]_vars

(* ---- the ids create_conversation makes ------------------------------- *)

\* strftime('%Y%m%d_%H%M%S') of the seconds of the clock
Strftime == <<"20240101_120000", "20240101_120001", "20240101_120002">>

\* f"conv_{datetime.now().strftime(...)}_{len(self.active_conversations)}"
ConversationId(now, registered) ==
    "conv_" \o Strftime[now + 1] \o "_" \o Digits[registered + 1]

\* agent_ids of the requests: one that names no agent of agents.json, one that does
IdRosters == {<<"zz">>, <<"a1">>}

Fresh(roster, limit) ==
    [status |-> "idle", messages |-> <<>>, current_turn |-> 0,
     max_turns |-> limit, agent_ids |-> roster]

\* create_conversation with the id it computes: the entry of
\* active_conversations and of the memory store under that id is assigned,
\* whether or not the id was held before
CreateNumbered(roster, limit) ==
    LET id == ConversationId(clock, Cardinality(registry))
    IN  /\ Cardinality(registry) < MaxRegistered
        /\ IF SelectedAgents(roster) = <<>>
           THEN /\ reply' = "ValueError"
                /\ UNCHANGED <<conv, registry, store>>
           ELSE /\ conv' = [k \in DOMAIN conv \cup {id} |->
                               IF k = id THEN Fresh(roster, limit) ELSE conv[k]]
                /\ registry' = registry \cup {id}
                /\ store' = store \cup {id}
                /\ reply' = "created"
        /\ UNCHANGED <<inflight, loops, streams, events, bvars>>

\* a second passes
ClockTick ==
    /\ clock < MaxClock
    /\ clock' = clock + 1
    /\ UNCHANGED <<conv, registry, store, inflight, loops, reply, streams, events,
                   connections, tasks, received, memory, backend, answer,
                   subject, snapshot, loaded>>

NextId ==
    \/ \E r \in IdRosters, l \in {0, 1} : CreateNumbered(r, l)
    \/ \E c \in registry : EndConversation(c)
    \/ \E c \in registry : DeleteConversation(c)
    \/ ClockTick

IdSpec == Init /\ [][NextId]_vars

(* ------------------- helpers of the properties ------------------------ *)

Log(c) == conv[c].messages

Participant(c) == NonSystem(Log(c))

TurnsOf(c) ==
    LET S == {u \in BagToSet(inflight) : u.conv = c}
    IN  BagCardinality([u \in S |-> inflight[u]])

IsPrefix(s, t) == Len(s) <= Len(t) /\ SubSeq(t, 1, Len(s)) = s

\* some step of continue_conversation on c
ContinueStep(c) ==
    \/ ContinueCall(c)
    \/ \E t \in Turns : t.conv = c /\ (ContinueGenOk(t) \/ ContinueGenFail(t))

\* some step of the autonomous loop of c
LoopStep(c) ==
    \/ LoopIterate(c)
    \/ \E t \in Turns : t.conv = c /\ (LoopGenOk(t) \/ LoopGenFail(t))

(* ----------------------------- C1 ------------------------------------- *)

\* C1: current_turn never decreases; every step changes it by exactly the
\* number of participant (non-system) messages the step appends, which is 0
\* or 1; so it always equals the number of participant messages in the log.
C1_TurnCountsParticipantMessages ==
    /\ [](\A c \in DOMAIN conv : conv[c].current_turn = Len(Participant(c)))
    /\ [][\A c \in DOMAIN conv :
            /\ conv'[c].current_turn >= conv[c].current_turn
            /\ conv'[c].current_turn - conv[c].current_turn \in {0, 1}
            /\ conv'[c].current_turn - conv[c].current_turn
                 = Len(NonSystem(conv'[c].messages)) - Len(Participant(c))]_vars

\* a log with system messages of start and stop around turns of start and loop
C1_Witness ==
    \E c \in DOMAIN conv :
        /\ conv[c].current_turn = 2
        /\ \E i \in DOMAIN Log(c) : Log(c)[i].by = "loop"
        /\ \E i \in DOMAIN Log(c) : Log(c)[i].content = "started"
        /\ \E i \in DOMAIN Log(c) : Log(c)[i].content = "stopped"

(* ----------------------------- C2 ------------------------------------- *)

RoundRobin(c) ==
    \A k \in DOMAIN Participant(c) :
        Participant(c)[k].speaker = conv[c].agent_ids[((k - 1) % Len(conv[c].agent_ids)) + 1]

AutoStarted(c) ==
    c \in DOMAIN conv /\ conv[c].max_turns > 0 /\ Log(c) # <<>>

AutoFinal(c) ==
    /\ c \in DOMAIN conv
    /\ conv[c].status = "ended"
    /\ c \notin registry
    /\ Len(Participant(c)) = conv[c].max_turns
    /\ conv[c].current_turn = conv[c].max_turns
    /\ RoundRobin(c)
    /\ TurnsOf(c) = 0 /\ loops[c] = 0

\* C2: a conversation with turn limit L > 0, started once and driven only by
\* the autonomous loop with generation succeeding, ends up for good in status
\* ended with exactly L participant messages, current_turn = L, the k-th
\* message spoken by agent_ids[(k-1) mod n], and its loop terminated.
C2_AutonomousRunEndsAtLimit ==
    \A c \in ConvIds : [](AutoStarted(c) => <>[]AutoFinal(c))

\* the run of the spec's example: limit 3, two participants, speakers p1 p2 p1
C2_Witness ==
    \E c \in DOMAIN conv :
        /\ AutoFinal(c)
        /\ conv[c].max_turns = 3
        /\ conv[c].agent_ids = <<"a1", "a2">>
        /\ Len(Log(c)) = 5

(* ----------------------------- C3 ------------------------------------- *)

\* C3: for a conversation with max_turns <= 0 no step of continue_conversation
\* and no step of the autonomous loop moves the status to ended or removes the
\* conversation from the registry.
C3_UnlimitedNeverEndsByItself ==
    [][\A c \in DOMAIN conv :
          conv[c].max_turns <= 0 /\ (ContinueStep(c) \/ LoopStep(c)) =>
              /\ conv'[c].status = "ended" => conv[c].status = "ended"
              /\ c \in registry => c \in registry']_vars

(* ----------------------------- C4 ------------------------------------- *)

\* C4: continue_conversation on a registered conversation whose status is
\* idle, stopped, ended or error is rejected: it begins no turn and changes
\* neither the log nor current_turn nor anything else.
C4_ContinueRejectedUnlessActive ==
    [][\A c \in registry :
          conv[c].status \in {"idle", "stopped", "ended", "error"} /\ ContinueCall(c) =>
              UNCHANGED vars]_vars

(* ----------------------------- C5 ------------------------------------- *)

\* C5: at most one turn execution is in flight per conversation at any instant.
C5_OneTurnInFlight ==
    \A c \in ConvIds : TurnsOf(c) <= 1

(* ----------------------------- C6 ------------------------------------- *)

\* C6: under concurrent continue calls the log is only ever appended to, every
\* call that executes a turn raises current_turn by one, and the participant
\* messages carry the turn numbers 1, 2, ..., current_turn in log order (no
\* duplicate, no gap).
C6_ConcurrentContinueTurnNumbers ==
    /\ [](\A c \in DOMAIN conv :
            /\ Len(Participant(c)) = conv[c].current_turn
            /\ \A k \in DOMAIN Participant(c) : Participant(c)[k].turn_number = k)
    /\ [][\A c \in DOMAIN conv :
            /\ IsPrefix(Log(c), conv'[c].messages)
            /\ \A t \in Turns :
                 t.conv = c /\ ContinueGenOk(t) =>
                    /\ conv'[c].current_turn = conv[c].current_turn + 1
                    /\ Len(conv'[c].messages) = Len(Log(c)) + 1]_vars

\* two continue calls overlapped and both appended: with two participants,
\* two adjacent messages of continue calls by the same speaker
C6_Witness ==
    \E c \in DOMAIN conv :
        /\ conv[c].agent_ids = <<"a1", "a2">>
        /\ \E i \in 1..(Len(Log(c)) - 1) :
             /\ Log(c)[i].by = "continue" /\ Log(c)[i + 1].by = "continue"
             /\ Log(c)[i].speaker = Log(c)[i + 1].speaker

(* ----------------------------- C7 ------------------------------------- *)

GenFail(t) == StartGenFail(t) \/ ContinueGenFail(t) \/ LoopGenFail(t)

\* C7: when the generation call of a turn fails, the status of the conversation
\* becomes error and exactly one system message is appended to its log.
C7_GenerationFailureMovesToError ==
    [][\A t \in Turns :
          GenFail(t) =>
              /\ conv'[t.conv].status = "error"
              /\ Len(conv'[t.conv].messages) = Len(Log(t.conv)) + 1
              /\ IsPrefix(Log(t.conv), conv'[t.conv].messages)
              /\ IsSystem(conv'[t.conv].messages[Len(conv'[t.conv].messages)])]_vars

(* ----------------------------- C8 ------------------------------------- *)

\* C8: once the status is stopped, ended or error, no step sets it back to
\* idle or active.
C8_NoWayBackFromTerminal ==
    [][\A c \in DOMAIN conv :
          conv[c].status \in {"stopped", "ended", "error"} =>
              conv'[c].status \notin {"idle", "active"}]_vars

(* ----------------------------- C9 ------------------------------------- *)

\* the autonomous loop tasks of c that have been created and have not ended
RunningLoops(c) ==
    LET S == {u \in BagToSet(inflight) : u.conv = c /\ u.op = "loop"}
    IN  loops[c] + BagCardinality([u \in S |-> inflight[u]])

\* C9: start_conversation on a registered conversation whose status is not
\* idle changes nothing (status, log, current_turn) and begins nothing, and a
\* conversation never has more than one autonomous loop.
C9_StartRejectedUnlessIdle ==
    /\ [](\A c \in ConvIds : RunningLoops(c) <= 1)
    /\ [][\A c \in registry :
            conv[c].status # "idle" /\ StartCall(c) => UNCHANGED vars]_vars

(* ----------------------------- C10 ------------------------------------ *)

Announcement == SystemMessage("started", 0, "start")

\* Under ServiceSpec the status changes only together with an announcement in
\* the log, so the one start call in flight was made on an idle conversation
\* exactly if its announcement is the only one of a start and no stop or end
\* announcement precedes it.
StartedFromIdle(c) ==
    \E i \in DOMAIN Log(c) :
        /\ Log(c)[i] = Announcement
        /\ \A j \in DOMAIN Log(c) : Log(c)[j] = Announcement => j = i
        /\ \A j \in 1..(i - 1) : ~IsSystem(Log(c)[j])

\* what the caller of a successful start is to find
StartPost(cv) ==
    /\ cv.status = "active"
    /\ cv.messages = <<Announcement, AgentMessage(cv.agent_ids[1], 1, "start")>>
    /\ cv.current_turn = 1

\* the original statement of C10: whenever start_conversation returns success
\* for a call made on an idle conversation, the status is active, the log is
\* the announcement followed by agent_ids[0]'s message with turn number 1,
\* current_turn is 1 and the loop has run no turn.
C10_StartReturnsWithFirstTurn ==
    [][\A t \in Turns :
          StartGenOk(t) /\ StartedFromIdle(t.conv) =>
              StartPost(conv'[t.conv]) /\ loops'[t.conv] = 1]_vars

\* nothing but the call itself has changed the conversation since the call
Undisturbed(c) ==
    /\ Log(c) = <<Announcement>>
    /\ conv[c].status = "active"
    /\ conv[c].current_turn = 0

\* C10 (amended): when start_conversation returns success, the message it
\* appends is agent_ids[0]'s, numbered current_turn + 1, and the autonomous
\* loop task is created by that same step, after the append; if nothing else
\* changed the conversation between the call and the return, the status is
\* active, the log is the announcement followed by agent_ids[0]'s message
\* with turn number 1, current_turn is 1, and the one loop has run no turn.
C10_StartReturnsWithFirstTurnUndisturbed ==
    [][\A t \in Turns :
          StartGenOk(t) =>
              LET c == t.conv IN
              /\ conv'[c].messages =
                    Append(Log(c), AgentMessage(conv[c].agent_ids[1], conv[c].current_turn + 1, "start"))
              /\ loops'[c] = loops[c] + 1
              /\ Undisturbed(c) =>
                    /\ StartPost(conv'[c])
                    /\ RunningLoops(c)' = 1 /\ loops'[c] = 1]_vars

\* a start has just returned undisturbed: its loop is created and has not run
C10_Witness ==
    \E c \in registry :
        /\ StartPost(conv[c])
        /\ RunningLoops(c) = 1
        /\ loops[c] = 1

(* ----------------------------- C11 ------------------------------------ *)

\* C11: when start_conversation returns failure because its first generation
\* call failed, the conversation is not left with status active, the start
\* announcement in its log and no autonomous loop.
C11_FailedStartLeavesNoTrace ==
    [][\A t \in Turns :
          StartGenFail(t) =>
              ~ /\ conv'[t.conv].status = "active"
                /\ \E i \in DOMAIN conv'[t.conv].messages :
                       conv'[t.conv].messages[i] = Announcement
                /\ RunningLoops(t.conv)' = 0]_vars

(* ----------------------------- C12 ------------------------------------ *)

\* the first message of a start_conversation call that returned success; the
\* call created an autonomous loop in the step that appended it
StartTurn(m) == ~IsSystem(m) /\ m.by = "start"

\* Under ServiceSpec a loop ends only after a stop or end announcement or a
\* delete, so: stop_conversation or end_conversation was called on c while
\* one of its loops was running, and no loop was created after that call.
StoppedWhileLooping(c) ==
    \E i \in DOMAIN Log(c) :
        /\ Log(c)[i].content \in {"stopped", "ended"}
        /\ \E j \in 1..(i - 1) : StartTurn(Log(c)[j])
        /\ \A j \in (i + 1)..Len(Log(c)) : ~StartTurn(Log(c)[j])

\* C12: after stop_conversation or end_conversation was called while the
\* autonomous loop was running, that loop begins no new turn.
C12_NoLoopTurnAfterStop ==
    [][\A c \in DOMAIN conv :
          StoppedWhileLooping(c) => ~(LoopIterate(c) /\ inflight' # inflight)]_vars

(* ----------------------------- C13 ------------------------------------ *)

\* C13: an iteration of the autonomous loop that finds the conversation
\* removed, or its status stopped, ended or error, ends the loop there: it
\* begins no turn and changes neither the conversation nor the registry.
C13_LoopRunsOnlyWhileActive ==
    [][\A c \in ConvIds :
          LoopIterate(c) /\ (c \notin registry \/ conv[c].status \in {"stopped", "ended", "error"}) =>
              /\ loops'[c] = loops[c] - 1
              /\ UNCHANGED <<conv, registry, store, inflight>>]_vars

(* ----------------------------- C14 ------------------------------------ *)

\* C14: stop_conversation on a registered conversation whose status is
\* already stopped, ended or error changes nothing; in particular it appends
\* no second "stopped" announcement.
C14_StopRejectedWhenTerminal ==
    [][\A c \in registry :
          conv[c].status \in {"stopped", "ended", "error"} /\ StopConversation(c) =>
              UNCHANGED vars]_vars

(* ----------------------------- C15 ------------------------------------ *)

EndedAnnouncements(c) == {i \in DOMAIN Log(c) : Log(c)[i].content = "ended"}

NotFoundCall(c) ==
    /\ c \notin registry
    /\ StartRequest(c) \/ ContinueRequest(c) \/ StopRequest(c) \/ EndRequest(c)

C17_EmptyRosterCreatesNothing ==
    [][\A c \in ConvIds, l \in Limits :
          CreateConversation(c, <<>>, l) =>
              /\ reply' = "ValueError"
              /\ UNCHANGED <<conv, registry, store>>]_vars

\* a create request was refused while a conversation is registered
C17_Witness == reply = "ValueError" /\ registry # {}

(* ----------------------------- C18 ------------------------------------ *)

\* C18: a create request naming an unknown participant creates nothing, so
\* the agent_ids of every registered conversation are known participants.
C18_RegisteredRostersKnown ==
    /\ [](\A c \in registry : KnownRoster(conv[c]))
    /\ [][\A c \in ConvIds, r \in RequestRosters, l \in Limits :
            CreateConversation(c, r, l) /\ SelectedAgents(r) # r =>
                UNCHANGED <<conv, registry, store>>]_vars

(* ----------------------------- C19 ------------------------------------ *)

StreamsOf(c, phase) == {i \in DOMAIN streams : streams[i].conv = c /\ streams[i].phase = phase}

\* C19: a generation call that raises, also after chunks of its stream were
\* delivered, appends no message and leaves current_turn alone; the log holds
\* one participant message per completed generation call and no other.
C19_FailedGenerationAppendsNothing ==
    /\ [](\A c \in DOMAIN conv :
             /\ Len(Participant(c)) = Cardinality(StreamsOf(c, "done"))
             /\ conv[c].current_turn = Cardinality(StreamsOf(c, "done")))
    /\ [][\A i \in DOMAIN streams : StreamFail(i) => UNCHANGED conv]_vars

\* a stream that failed after chunks with content had reached the callbacks
C19_Witness ==
    \E i \in DOMAIN streams :
        /\ streams[i].phase = "failed"
        /\ streams[i].full_content # ""
        /\ \E k \in DOMAIN events : events[k].stream = i /\ events[k].is_streaming

(* ----------------------------- C20 ------------------------------------ *)

\* what the callbacks received for the generation call i, in order
EventsOf(i) == SelectSeq(events, LAMBDA e : e.stream = i)

\* C20: the events of one turn are stream deltas whose cumulative content
\* strictly grows from one delta to the next, then, once the turn is
\* complete, exactly one final event (is_streaming false) carrying the
\* content of the last delta; nothing of the turn follows the final event.
C20_DeltasGrowThenOneFinal ==
    \A i \in DOMAIN streams :
        LET E == EventsOf(i)
            n == Len(E)
        IN  /\ \A k \in 1..(n - 1) : E[k].is_streaming
            /\ streams[i].phase = "done" =>
                   /\ n >= 1 /\ ~E[n].is_streaming
                   /\ n >= 2 => E[n].content = E[n - 1].content
            /\ streams[i].phase # "done" => \A k \in 1..n : E[k].is_streaming
            /\ \A k \in 1..(n - 1) :
                   E[k + 1].is_streaming => Len(E[k + 1].content) > Len(E[k].content)

(* ----------------------------- C21 ------------------------------------ *)

\* the message m of conversation c was handed to the callbacks
Published(c, m) ==
    \E j \in DOMAIN events :
        /\ events[j].conv = c
        /\ ~events[j].is_streaming
        /\ events[j].content = m.content
        /\ events[j].turn_number = m.turn_number

\* C21: every message of a log, the system announcements included, was
\* published to the callbacks; every status change is published; and the
\* step that removes a conversation from the registry publishes an event.
C21_EveryAppendAndStatusPublished ==
    /\ [](\A c \in DOMAIN conv : \A k \in DOMAIN Log(c) : Published(c, Log(c)[k]))
    /\ [][\A c \in DOMAIN conv :
            conv'[c].status # conv[c].status => Len(events') > Len(events)]_vars
    /\ [][\A c \in registry :
            c \notin registry' => Len(events') > Len(events)]_vars

(* ----------------------------- C22 ------------------------------------ *)

\* callback s was called (and returned or raised) with message m of c
Called(s, c, m) ==
    \E j \in DOMAIN received[s] :
        /\ received[s][j].conv = c
        /\ received[s][j].content = m.content
        /\ received[s][j].turn_number = m.turn_number

\* C22: a callback that raises does not disturb the turn: the step that
\* hands the message to the callbacks appends it and increments
\* current_turn whatever callbacks raise, and every callback of the list is
\* called with every participant message of the log, also when a callback
\* before it in the list raised.
C22_RaisingCallbackIsIsolated ==
    /\ [](\A c \in DOMAIN conv : \A k \in DOMAIN Participant(c) :
             \A s \in CallbackSet : Called(s, c, Participant(c)[k]))
    /\ [](\A c \in DOMAIN conv : conv[c].current_turn = Len(Participant(c)))
    /\ [][\A t \in Turns, raising \in SUBSET CallbackSet :
            ContinueGenPublished(t, raising) =>
                /\ Len(Log(t.conv))' = Len(Log(t.conv)) + 1
                /\ conv'[t.conv].current_turn = conv[t.conv].current_turn + 1
                /\ \A s \in CallbackSet \ raising :
                       /\ Len(received'[s]) = Len(received[s]) + 1
                       /\ received'[s][Len(received'[s])].ok]_vars

\* the first callback raised on a message and the second one got it
C22_Witness ==
    \E j \in DOMAIN received["cb1"], k \in DOMAIN received["cb2"] :
        /\ ~received["cb1"][j].ok
        /\ received["cb2"][k].ok
        /\ received["cb2"][k].turn_number = received["cb1"][j].turn_number
        /\ \E c \in DOMAIN conv : conv[c].current_turn >= received["cb1"][j].turn_number

(* ----------------------------- C23 ------------------------------------ *)

\* C23: a callback to which a delivery failed is called no more: a failed
\* call is the last entry of what it received.
C23_FailedSubscriberGetsNoLaterEvent ==
    \A s \in CallbackSet : \A j \in DOMAIN received[s] :
        ~received[s][j].ok => j = Len(received[s])

(* ----------------------------- C24 ------------------------------------ *)

\* C24: what a WebSocket connection receives is in the order of publishing:
\* the publish numbers of the messages it got increase.
C24_DeliveredInPublishOrder ==
    \A ws \in Sockets : \A j, k \in DOMAIN received[ws] :
        j < k => received[ws][j] < received[ws][k]

(* ----------------------------- C25 ------------------------------------ *)

\* the iteration of the loop of c that goes on to a turn
LoopSchedules(c) == LoopIterate(c) /\ inflight' # inflight

\* C25: the speaker the loop schedules is agent_ids[current_turn mod
\* len(agent_ids)] (counting from 0) of the conversation as it is, and
\* scheduling changes neither the conversation nor the registry nor the store.
C25_SchedulerIsPureRoundRobin ==
    [][\A c \in ConvIds :
          LoopSchedules(c) =>
              /\ \E a \in Agents :
                    /\ inflight' = inflight (+) SetToBag({Turn(c, "loop", a)})
                    /\ \E k \in 0..(Len(conv[c].agent_ids) - 1) :
                          /\ k = conv[c].current_turn % Len(conv[c].agent_ids)
                          /\ a = conv[c].agent_ids[k + 1]
              /\ UNCHANGED <<conv, registry, store>>]_vars

\* a turn past the end of a roster of three was scheduled: the choice wrapped around
C25_Witness ==
    \E c \in DOMAIN conv :
        /\ Len(conv[c].agent_ids) = 3
        /\ conv[c].current_turn = 3
        /\ conv[c].agent_ids[1] # conv[c].agent_ids[2]
        /\ \E t \in BagToSet(inflight) : t.conv = c /\ t.op = "loop" /\ t.agent = conv[c].agent_ids[1]

(* ----------------------------- C26 ------------------------------------ *)

\* C26: when the save of a turn fails, the turn fails like a generation
\* failure: the conversation stays as it was and no final event is handed
\* to the callbacks.
C26_FailedSaveFailsTheTurn ==
    [][\A t \in Turns :
          backend = "down" /\ ContinueGenSaved(t) => UNCHANGED <<conv, events>>]_vars

(* ----------------------------- C27 ------------------------------------ *)

\* C27: a read that fails in the backend is told apart from a read that
\* finds nothing: load_conversation does not answer None and
\* list_conversations does not answer the empty list while the backend is down.
C27_FailedReadIsNotEmpty ==
    /\ [][\A c \in RequestIds :
            backend = "down" /\ LoadConversation(c) => reply' # "None"]_vars
    /\ [][backend = "down" /\ ListConversations => reply' # "[]"]_vars

(* ----------------------------- C28 ------------------------------------ *)

Entries(c) == IF c \in DOMAIN memory THEN memory[c] ELSE <<>>

Min(a, b) == IF a <= b THEN a ELSE b

\* C28: for every conversation and every limit >= 0,
\* get_conversation_history returns the last min(limit, n) of the n stored
\* entries, in insertion order, hence never more than limit entries.
C28_HistoryIsLastLimitEntries ==
    \A c \in MemIds, limit \in QueryLimits :
        LET n == Len(Entries(c))
            h == GetConversationHistory(memory, c, limit)
        IN  /\ h = SubSeq(Entries(c), n - Min(limit, n) + 1, n)
            /\ Len(h) <= limit

(* ----------------------------- C29 ------------------------------------ *)

OnlyOf(c, list) == \A k \in DOMAIN list : list[k].conversation_id = c

Answers(mem, c) ==
    [l \in QueryLimits |->
        <<GetConversationHistory(mem, c, l),
          [a \in MemAgents |-> GetAgentMemory(mem, a, c, l)],
          [topic \in SUBSET Words |-> GetRelevantContext(mem, c, topic, l)]>>]

\* C29: every query for a conversation returns entries stored under that
\* conversation only, and storing or clearing under one conversation leaves
\* the answers of every query for another conversation as they were.
C29_MemoryIsolatedPerConversation ==
    /\ [](\A c \in MemIds, l \in QueryLimits :
             /\ OnlyOf(c, GetConversationHistory(memory, c, l))
             /\ \A a \in MemAgents : OnlyOf(c, GetAgentMemory(memory, a, c, l))
             /\ \A topic \in SUBSET Words : OnlyOf(c, GetRelevantContext(memory, c, topic, l)))
    /\ [][\A c \in MemIds : \A other \in MemIds \ {c} :
            (ClearConversationMemory(other)
               \/ \E a \in MemAgents, w \in Words : StoreMessage(other, a, w))
            => Answers(memory', c) = Answers(memory, c)]_vars

\* both conversations hold entries and a query was answered with a part of the entries
C29_Witness ==
    /\ \A c \in MemIds : Len(Entries(c)) >= 1
    /\ answer.conv \in MemIds
    /\ Len(answer.result) >= 1
    /\ Len(answer.result) < Len(Entries(answer.conv))

C31_DeletedIsNotRetrievable ==
    [][\A c \in ConvIds :
         c \in registry /\ DeleteRoute(c) /\ reply' = "200" => GetAnswer(c)' = "404"]_vars

\* C32: a Conversation serialized with _serialize_conversation and read
\* back with _deserialize_conversation is the same Conversation: status,
\* turn counter, roster and the messages of the log in their order.
C32_SnapshotRoundTrip ==
    loaded.done => loaded.ok /\ loaded.value = subject

\* a conversation that was ended, with a log of two messages whose times
\* have and have not microseconds, was written and read back
C32_Witness ==
    /\ loaded.done
    /\ subject.ended_at # <<>>
    /\ Len(subject.messages) = 2
    /\ subject.messages[1].timestamp.microsecond = 0
    /\ subject.messages[2].timestamp.microsecond = 5

\* C33: stop_conversation on an active conversation sets its status to
\* stopped and appends exactly one system "stopped" message at the end of the
\* log; current_turn, the roster, the earlier messages and the membership of
\* the registry stay as they were.
C33_StopAppendsOneAnnouncement ==
    [][\A c \in ConvIds :
         c \in registry /\ conv[c].status = "active" /\ StopConversation(c) =>
            /\ conv'[c].status = "stopped"
            /\ Len(conv'[c].messages) = Len(conv[c].messages) + 1
            /\ SubSeq(conv'[c].messages, 1, Len(conv[c].messages)) = conv[c].messages
            /\ IsSystem(conv'[c].messages[Len(conv'[c].messages)])
            /\ conv'[c].messages[Len(conv'[c].messages)].content = "stopped"
            /\ conv'[c].current_turn = conv[c].current_turn
            /\ conv'[c].agent_ids = conv[c].agent_ids
            /\ registry' = registry]_vars

\* a conversation that was started and took turns has been stopped: the
\* announcement is the last of its messages and the only one of its kind
C33_Witness ==
    \E c \in registry :
        /\ conv[c].status = "stopped"
        /\ conv[c].current_turn >= 1
        /\ Len(conv[c].messages) >= 3
        /\ conv[c].messages[Len(conv[c].messages)].by = "stop"
        /\ \A i \in 1..(Len(conv[c].messages) - 1) :
             conv[c].messages[i].by \in {"start", "continue", "loop"}

\* C34: under any interleaving of start, continue and the autonomous loop,
\* every participant message with turn number k was spoken by the participant
\* at place (k - 1) mod n of the roster: no speaker is repeated or skipped.
C34_RoundRobinUnderInterleaving ==
    \A c \in DOMAIN conv :
        \A i \in DOMAIN Log(c) :
            ~IsSystem(Log(c)[i]) =>
                Log(c)[i].agent_id =
                    conv[c].agent_ids[((Log(c)[i].turn_number - 1) % Len(conv[c].agent_ids)) + 1]

\* C35: for a conversation with a turn limit L > 0, current_turn never
\* exceeds L and the log never holds more than L participant messages, under
\* any interleaving of the autonomous loop with continue_conversation calls.
C35_LimitHoldsUnderInterleaving ==
    \A c \in DOMAIN conv :
        conv[c].max_turns > 0 =>
            /\ conv[c].current_turn <= conv[c].max_turns
            /\ Len(Participant(c)) <= conv[c].max_turns

\* C36: a conversation that delete_conversation removed (it was created and
\* is in neither the registry nor the memory store) never reappears in the
\* store or the registry, also when a turn of it was awaiting its generation
\* at the deletion and completes afterwards.
C36_DeletedNeverReappears ==
    [][\A c \in DOMAIN conv :
         c \notin registry /\ c \notin store => c \notin registry' /\ c \notin store']_vars

\* C37: create_conversation never makes an id that a conversation of the
\* registry holds: after any sequence of create, end and delete operations,
\* several of them within one second of the clock included, a new
\* conversation never overwrites an entry of the registry.
C37_CreatedIdIsUnused ==
    [][\A r \in IdRosters, l \in {0, 1} :
         CreateNumbered(r, l) /\ reply' = "created" =>
            ConversationId(clock, Cardinality(registry)) \notin registry]_vars

\* C38: every stream-delta event of a turn carries the same turn number as
\* the final message of that turn, under any interleaving with other turns
\* of the same conversation (the number the turn was started with is kept
\* from its first delta to its final message).
C38_DeltasCarryTheFinalTurnNumber ==
    \A a \in DOMAIN events, b \in DOMAIN events :
        /\ events[a].stream = events[b].stream
        /\ events[a].is_streaming
        /\ ~events[b].is_streaming
        => events[a].turn_number = events[b].turn_number

\* C39: in a broadcast, a connection of the active list whose send would
\* succeed receives the message however many other connections fail and are
\* removed during the broadcast: after a failed send the loop goes on with
\* the connection that followed the failing one in the list.
C39_NoConnectionSkippedAfterFailure ==
    [][\A k \in DOMAIN tasks : \A p \in DOMAIN connections :
         /\ tasks[k].state = "sending"
         /\ connections[p] = tasks[k].cur
         /\ p < Len(connections)
         /\ SendFail(k)
         => /\ tasks'[k].state = "sending"
            /\ tasks'[k].cur = connections[p + 1]]_vars

====
